---------------------------- MODULE Spec2Model ----------------------------
(***************************************************************************)
(* A model of pip_build_standalone/build.py: build_python_env and its      *)
(* helpers update_macos_dylib_ids, replace_absolute_paths and              *)
(* clean_pycache_dirs.                                                     *)
(*                                                                         *)
(* The filesystem below target_dir is a function from paths (sequences of  *)
(* entry names, relative to target_dir; <<>> is target_dir itself) to      *)
(* nodes.  File contents and path strings are sequences of bytes.          *)
(*                                                                         *)
(* Three specifications share the variables and the actions:               *)
(*   Spec       one call of build_python_env;                              *)
(*   SpecSR     calls of replace_absolute_paths on arbitrary trees and     *)
(*              path pairs;                                                *)
(*   SpecClean  one call of clean_pycache_dirs on arbitrary trees.         *)
(***************************************************************************)
EXTENDS Integers, Sequences, FiniteSets, TLC

VARIABLES
    pc,               \* the control point of the running function
    fs,               \* the filesystem below target_dir
    args,             \* target_dir, python_version, force of build_python_env
    sys_platform,     \* sys.platform
    target_absolute,  \* build_python_env's local target_absolute
    install_root,     \* build_python_env's local install_root
    python_root,      \* parameter of replace_absolute_paths
    old_path_str,     \* parameter of replace_absolute_paths
    new_path_str,     \* parameter of replace_absolute_paths
    walk,             \* os.walk's directories still to visit, first on top
    dylibs,           \* update_macos_dylib_ids: the glob's paths still to patch
    matches,          \* replace_absolute_paths's local matches
    replaced,         \* the (discarded) return value of the replace-mode call
    err,              \* the exception that ended the call, "none" when none
    cmds,             \* the external commands run so far and how each exited
    steps,            \* the steps that acted so far, in order
    out,              \* the warn / confirmation / success messages emitted
    calls,            \* calls of replace_absolute_paths made so far
    fs0,              \* history: fs when the function was entered
    fs_before         \* history: fs before the latest search_replace_in_files call

vars == <<pc, fs, args, sys_platform, target_absolute, install_root,
          python_root, old_path_str, new_path_str, walk, dylibs, matches,
          replaced, err, cmds, steps, out, calls, fs0, fs_before>>

---------------------------------------------------------------------------
(* Bounds of the model.                                                    *)

\* Longest file content drawn for replace_absolute_paths, in bytes.
MaxLen == 4
\* Longest old / new path string drawn for replace_absolute_paths.
MaxPat == 2
\* Calls of replace_absolute_paths in one behaviour of SpecSR.
MaxCalls == 2
\* Deepest directory level of the trees drawn for clean_pycache_dirs.
MaxDepth == 2

---------------------------------------------------------------------------
(* Bytes, strings and paths.                                               *)

Bytes == {"/", "a"}

BoundedSeq(S, n) == UNION {[1..k -> S] : k \in 0..n}

\* The value None of Python, as an argument where bytes are expected.
None == <<"None">>

IsPrefix(p, q) == Len(p) <= Len(q) /\ SubSeq(q, 1, Len(p)) = p

\* q lies strictly below directory p.
Under(p, q) == Len(p) < Len(q) /\ SubSeq(q, 1, Len(p)) = p

Parent(p) == SubSeq(p, 1, Len(p) - 1)

Dir == [kind |-> "dir", data |-> <<>>]

File(c) == [kind |-> "file", data |-> c]

IsDir(f, p) == p \in DOMAIN f /\ f[p].kind = "dir"

\* f with the entries of g added or overwritten.
Overlay(f, g) ==
    [p \in DOMAIN f \cup DOMAIN g |-> IF p \in DOMAIN g THEN g[p] ELSE f[p]]

\* The current working directory of the process.
Cwd == <<"/">>

\* Path.resolve(): an absolute path is kept, a relative one is joined to
\* the working directory (no symlinks and no ".." are modelled).
Resolve(p) ==
    IF Len(p) > 0 /\ p[1] = "/" THEN p
    ELSE IF Cwd = <<"/">> THEN Cwd \o p
    ELSE Cwd \o <<"/">> \o p

---------------------------------------------------------------------------
(* search_replace_in_files (pip_build_standalone.search_replace_files).    *)

\* pat occurs in s at position i.
Occurs(s, pat, i) ==
    /\ i >= 1
    /\ i + Len(pat) - 1 <= Len(s)
    /\ SubSeq(s, i, i + Len(pat) - 1) = pat

RECURSIVE CountFrom(_, _, _)
\* The occurrences of old in s from position i on, scanning left to right
\* and resuming after each occurrence.
CountFrom(s, old, i) ==
    IF i > Len(s) THEN 0
    ELSE IF Occurs(s, old, i) THEN 1 + CountFrom(s, old, i + Len(old))
    ELSE CountFrom(s, old, i + 1)

CountOcc(s, old) == CountFrom(s, old, 1)

RECURSIVE ReplaceFrom(_, _, _, _)
\* s from position i on with every occurrence of old replaced by new.
ReplaceFrom(s, old, new, i) ==
    IF i > Len(s) THEN <<>>
    ELSE IF Occurs(s, old, i)
         THEN new \o ReplaceFrom(s, old, new, i + Len(old))
    ELSE <<s[i]>> \o ReplaceFrom(s, old, new, i + 1)

ReplaceAll(s, old, new) == ReplaceFrom(s, old, new, 1)

\* The names a "*.py" pattern matches.
PyNames == {"m.py"}

\* A glob pattern: the entries below directory base, at any depth when
\* recursive ("**"), whose names end in .py when py.
Pattern(base, recursive, py) == [base |-> base, recursive |-> recursive, py |-> py]

\* The files glob.glob(g, recursive=True) yields on filesystem f.
GlobFiles(f, g) ==
    {p \in DOMAIN f :
        /\ f[p].kind = "file"
        /\ Under(g.base, p)
        /\ (g.recursive \/ Len(p) = Len(g.base) + 1)
        /\ (g.py => p[Len(p)] \in PyNames)}

RECURSIVE SumOver(_, _, _)
SumOver(S, f, old) ==
    IF S = {} THEN 0
    ELSE LET p == CHOOSE q \in S : TRUE
         IN  CountOcc(f[p].data, old) + SumOver(S \ {p}, f, old)

\* search_replace_in_files(glob_patterns, search_bytes, replace_bytes):
\* the filesystem afterwards and the returned match count.
SearchReplaceInFiles(f, globs, old, new) ==
    LET files == UNION {GlobFiles(f, globs[i]) : i \in 1..Len(globs)}
    IN  [fs    |-> IF new = None THEN f
                   ELSE [p \in DOMAIN f |->
                            IF p \in files /\ CountOcc(f[p].data, old) > 0
                            THEN File(ReplaceAll(f[p].data, old, new))
                            ELSE f[p]],
         count |-> SumOver(files, f, old)]

---------------------------------------------------------------------------
(* replace_absolute_paths.                                                 *)

\* TextGlob with "lib/*.py" for "lib/**/*.py".
TextGlobShallow(root) ==
    << Pattern(root \o <<"bin">>, FALSE, FALSE),
       Pattern(root \o <<"lib">>, FALSE, TRUE) >>

\* text_glob: [f"{python_root}/bin/*", f"{python_root}/lib/**/*.py"].
TextGlob(root) ==
    << Pattern(root \o <<"bin">>, FALSE, FALSE),
       Pattern(root \o <<"lib">>, TRUE, TRUE) >>

\* all_files_glob: [f"{python_root}/**/*"].
AllFilesGlob(root) == << Pattern(root, TRUE, FALSE) >>

\* ScanReplacement with the new path for None.
ScanReplacementNew == new_path_str

\* The replacement handed to the sanity-check call.
ScanReplacement == None

\* What the sanity check reports for a match count.
ScanMessage(n) == IF n # 0 THEN "warn" ELSE "info_none_found"

\* ReplacePass over all_files_glob instead of text_glob.
ReplacePassAllFiles ==
    /\ pc = "replace"
    /\ LET r == SearchReplaceInFiles(fs, AllFilesGlob(python_root),
                                     old_path_str, new_path_str)
       IN  /\ fs' = r.fs
           /\ replaced' = r.count
    /\ fs_before' = fs
    /\ steps' = Append(steps, "replace")
    /\ pc' = "scan"
    /\ UNCHANGED <<args, sys_platform, target_absolute, install_root,
                   python_root, old_path_str, new_path_str, walk, dylibs,
                   matches, err, cmds, out, calls, fs0>>

\* Lines 96-100: the replace-mode call over the text files.
ReplacePass ==
    /\ pc = "replace"
    /\ LET r == SearchReplaceInFiles(fs, TextGlob(python_root),
                                     old_path_str, new_path_str)
       IN  /\ fs' = r.fs
           /\ replaced' = r.count
    /\ fs_before' = fs
    /\ steps' = Append(steps, "replace")
    /\ pc' = "scan"
    /\ UNCHANGED <<args, sys_platform, target_absolute, install_root,
                   python_root, old_path_str, new_path_str, walk, dylibs,
                   matches, err, cmds, out, calls, fs0>>

\* ScanPass raising when the count is not zero.
ScanPassFatal ==
    /\ pc = "scan"
    /\ LET r == SearchReplaceInFiles(fs, AllFilesGlob(python_root),
                                     old_path_str, ScanReplacement)
       IN  /\ fs' = r.fs
           /\ matches' = r.count
           /\ IF r.count # 0
              THEN /\ out' = Append(out, "warn")
                   /\ err' = "VerificationError"
                   /\ pc' = "failed"
              ELSE /\ out' = Append(out, "info_none_found")
                   /\ pc' = "rap_return"
                   /\ UNCHANGED err
    /\ fs_before' = fs
    /\ steps' = Append(steps, "scan")
    /\ UNCHANGED <<args, sys_platform, target_absolute, install_root,
                   python_root, old_path_str, new_path_str, walk, dylibs,
                   replaced, cmds, calls, fs0>>

\* Lines 102-109: the scan-only call over all files, and its report.
ScanPass ==
    /\ pc = "scan"
    /\ LET r == SearchReplaceInFiles(fs, AllFilesGlob(python_root),
                                     old_path_str, ScanReplacement)
       IN  /\ fs' = r.fs
           /\ matches' = r.count
           /\ out' = Append(out, ScanMessage(r.count))
    /\ fs_before' = fs
    /\ steps' = Append(steps, "scan")
    /\ pc' = "rap_return"
    /\ UNCHANGED <<args, sys_platform, target_absolute, install_root,
                   python_root, old_path_str, new_path_str, walk, dylibs,
                   replaced, err, cmds, calls, fs0>>

---------------------------------------------------------------------------
(* clean_pycache_dirs.                                                     *)

\* The names of the subdirectories of directory d: os.walk's dirnames.
DirNames(f, d) ==
    {p[Len(p)] : p \in {q \in DOMAIN f : f[q].kind = "dir" /\ Parent(q) = d /\ Len(q) = Len(d) + 1}}

\* shutil.rmtree(p): p and everything below it are gone.
RmTree(f, p) == [q \in {x \in DOMAIN f : ~IsPrefix(p, x)} |-> f[q]]

\* CleanVisit looking for __pycache__ in the root directory only.
CleanVisitTopOnly(f, d) ==
    IF d = <<>> /\ "__pycache__" \in DirNames(f, d)
    THEN RmTree(f, d \o <<"__pycache__">>)
    ELSE f

\* Lines 117-119, the loop body for one dirpath yielded by os.walk.
CleanVisit(f, d) ==
    IF "__pycache__" \in DirNames(f, d)
    THEN RmTree(f, d \o <<"__pycache__">>)
    ELSE f

\* The orders in which a directory scan may list the names of S.
Orders(S) ==
    {s \in [1..Cardinality(S) -> S] : \A i, j \in 1..Cardinality(S) : s[i] = s[j] => i = j}

\* Line 116: os.walk takes the next directory.  A directory that no longer
\* exists is skipped silently (os.walk ignores the scandir error); otherwise
\* the loop body runs on it and then the subdirectories that were listed
\* before the body ran are queued, the removed __pycache__ included.
WalkVisit ==
    /\ pc = "clean"
    /\ walk # <<>>
    /\ LET d == Head(walk)
       IN  IF ~IsDir(fs, d)
           THEN /\ walk' = Tail(walk)
                /\ fs' = fs
           ELSE /\ fs' = CleanVisit(fs, d)
                /\ \E o \in Orders(DirNames(fs, d)) :
                      walk' = [i \in 1..Len(o) |-> d \o <<o[i]>>] \o Tail(walk)
    /\ steps' = Append(steps, "clean")
    /\ UNCHANGED <<pc, args, sys_platform, target_absolute, install_root,
                   python_root, old_path_str, new_path_str, dylibs, matches,
                   replaced, err, cmds, out, calls, fs0, fs_before>>

\* os.walk is exhausted: clean_pycache_dirs returns.
CleanReturn ==
    /\ pc = "clean"
    /\ walk = <<>>
    /\ pc' = "clean_return"
    /\ steps' = Append(steps, "clean")
    /\ UNCHANGED <<fs, args, sys_platform, target_absolute, install_root,
                   python_root, old_path_str, new_path_str, walk, dylibs,
                   matches, replaced, err, cmds, out, calls, fs0, fs_before>>

---------------------------------------------------------------------------
(* The external commands.  What a command leaves on disk and whether it    *)
(* exits with status 0 are the environment's choice; cli_utils.run raises  *)
(* on a non-zero exit.                                                     *)

\* One run of an external command: its name and whether it exited with 0.
Cmd(name, ok) == [cmd |-> name, ok |-> ok]

\* cli_utils.run raises when the command did not exit with 0.
RunRaises(ok) == ~ok

\* Directory names the interpreter install may create below target_dir.
R1 == "cpython-3.12.1-x"
R2 == "cpython-3.12.2-x"
R3 == "cpython-3.13.0-x"

PythonVersions == {"3.12"}

\* The names the pattern f"cpython-{python_version}.*" matches.
RootNamesFor(v) == IF v = "3.12" THEN {R1, R2} ELSE {}

\* The names a "*.dylib" pattern matches.
DylibNames == {"x.dylib"}

\* The contents the installers write to a file: without the absolute target
\* path, the absolute target path, and the path after one more "/".
BuildContents == { <<"a">>, <<"/", "a">>, <<"/", "/", "a">> }

\* An interpreter tree named r: bin/ and lib/, lib/x.dylib when r = R1,
\* and bin/pip with content c when hasPip.
RootTree(r, hasPip, c) ==
    LET base == (<<>> :> Dir) @@ (<<r>> :> Dir) @@ (<<r, "bin">> :> Dir)
                @@ (<<r, "lib">> :> Dir)
        dyl  == IF r = R1 THEN (<<r, "lib", "x.dylib">> :> File(<<"/", "a">>))
                ELSE <<>>
        pip  == IF hasPip THEN (<<r, "bin", "pip">> :> File(c)) ELSE <<>>
    IN  base @@ dyl @@ pip

\* What "uv python install" may leave below target_dir.
PyInstallTrees ==
    {RootTree(R3, TRUE, <<"a">>)}
    \cup {RootTree(R1, hasPip, c) : hasPip \in BOOLEAN, c \in BuildContents}
    \cup {Overlay(RootTree(R2, TRUE, c), RootTree(R1, hasPip, c)) :
             hasPip \in BOOLEAN, c \in BuildContents}

\* What "uv pip install" may leave below install root r: a package with a
\* module, a binary extension, and possibly bytecode caches.
PkgTrees(r) ==
    {LET pkg == (r \o <<"lib", "pkg">> :> Dir)
                @@ (r \o <<"lib", "pkg", "m.py">> :> File(c))
                @@ (r \o <<"lib", "x.so">> :> File(c))
         pyc == IF cache
                THEN (r \o <<"lib", "pkg", "__pycache__">> :> Dir)
                     @@ (r \o <<"lib", "pkg", "__pycache__", "m.pyc">> :> File(c))
                     @@ (r \o <<"lib", "__pycache__">> :> Dir)
                ELSE <<>>
     IN  pkg @@ pyc : c \in BuildContents, cache \in BOOLEAN}

\* The contents install_name_tool may leave in the dylib it was given.
DylibContents == { <<"a">>, <<"/", "a">> }

---------------------------------------------------------------------------
(* update_macos_dylib_ids.                                                 *)

\* glob.glob(f"{python_root}/lib/**/*.dylib", recursive=True).
GlobDylibs(f, root) ==
    {p \in DOMAIN f : Under(root \o <<"lib">>, p) /\ p[Len(p)] \in DylibNames}

\* Lines 84-85: the glob is expanded once, before the loop.
UpdateMacosDylibIds ==
    /\ pc = "dylib_glob"
    /\ \E o \in Orders(GlobDylibs(fs, install_root)) : dylibs' = o
    /\ steps' = Append(steps, "dylib")
    /\ pc' = "dylib_loop"
    /\ UNCHANGED <<fs, args, sys_platform, target_absolute, install_root,
                   python_root, old_path_str, new_path_str, walk, matches,
                   replaced, err, cmds, out, calls, fs0, fs_before>>

\* Lines 86-88: install_name_tool on the next dylib.
InstallNameTool ==
    /\ pc = "dylib_loop"
    /\ dylibs # <<>>
    /\ steps' = Append(steps, "dylib")
    /\ \E ok \in BOOLEAN, c \in DylibContents :
          /\ cmds' = Append(cmds, Cmd("install_name_tool", ok))
          /\ fs' = [fs EXCEPT ![Head(dylibs)] = File(c)]
          /\ IF ~RunRaises(ok)
             THEN /\ dylibs' = Tail(dylibs)
                  /\ UNCHANGED <<pc, err>>
             ELSE /\ pc' = "failed"
                  /\ err' = "ExternalToolFailure"
                  /\ UNCHANGED dylibs
    /\ UNCHANGED <<args, sys_platform, target_absolute, install_root,
                   python_root, old_path_str, new_path_str, walk, matches,
                   replaced, out, calls, fs0, fs_before>>

\* The loop is over: update_macos_dylib_ids returns.
DylibReturn ==
    /\ pc = "dylib_loop"
    /\ dylibs = <<>>
    /\ pc' = "call_replace"
    /\ UNCHANGED <<fs, args, sys_platform, target_absolute, install_root,
                   python_root, old_path_str, new_path_str, walk, dylibs,
                   matches, replaced, err, cmds, steps, out, calls, fs0,
                   fs_before>>

---------------------------------------------------------------------------
(* build_python_env.                                                       *)

\* RefuseExisting with the test of force inverted.
RefuseExistingInverted(f, force) == <<>> \in DOMAIN f /\ force

\* Line 24: the condition under which the build refuses to start.
RefuseExisting(f, force) == <<>> \in DOMAIN f /\ ~force

\* Lines 22-27: resolve the target, refuse an existing one without force.
BuildStart ==
    /\ pc = "start"
    /\ target_absolute' = Resolve(args.target_dir)
    /\ IF RefuseExisting(fs, args.force)
       THEN /\ err' = "FileExistsError"
            /\ pc' = "failed"
       ELSE /\ pc' = "python_install"
            /\ UNCHANGED err
    /\ UNCHANGED <<fs, args, sys_platform, install_root, python_root,
                   old_path_str, new_path_str, walk, dylibs, matches,
                   replaced, cmds, steps, out, calls, fs0, fs_before>>

\* UvPythonInstall going on whatever the exit status.
UvPythonInstallUnchecked ==
    /\ pc = "python_install"
    /\ steps' = Append(steps, "python_install")
    /\ \E ok \in BOOLEAN, t \in PyInstallTrees :
          /\ cmds' = Append(cmds, Cmd("uv_python_install", ok))
          /\ fs' = Overlay(fs, t)
    /\ pc' = "discover"
    /\ UNCHANGED <<args, sys_platform, target_absolute, install_root,
                   python_root, old_path_str, new_path_str, walk, dylibs,
                   matches, replaced, err, out, calls, fs0, fs_before>>

\* Lines 29-40: uv python install.  A failing command keeps what it wrote.
UvPythonInstall ==
    /\ pc = "python_install"
    /\ steps' = Append(steps, "python_install")
    /\ \E ok \in BOOLEAN, t \in PyInstallTrees :
          /\ cmds' = Append(cmds, Cmd("uv_python_install", ok))
          /\ fs' = Overlay(fs, t)
          /\ IF ~RunRaises(ok)
             THEN /\ pc' = "discover"
                  /\ UNCHANGED err
             ELSE /\ pc' = "failed"
                  /\ err' = "ExternalToolFailure"
    /\ UNCHANGED <<args, sys_platform, target_absolute, install_root,
                   python_root, old_path_str, new_path_str, walk, dylibs,
                   matches, replaced, out, calls, fs0, fs_before>>

\* Lines 43-44: glob.glob(os.path.join(target_dir, f"cpython-{v}.*")).
InstallRootPaths(f, v) == {n \in RootNamesFor(v) : <<n>> \in DOMAIN f}

\* InstallRootChoices refusing an ambiguous match.
InstallRootChoicesUnique(paths) == IF Cardinality(paths) = 1 THEN paths ELSE {}

\* Lines 45-48: the install roots the discovery may settle on; none means
\* FileNotFoundError.  The first match is used, in the order the directory
\* scan happens to list them.
InstallRootChoices(paths) == paths

\* PipExists without the look at the filesystem.
PipExistsUnchecked(f, r) == TRUE

\* Lines 50-51: pip_path.exists().
PipExists(f, r) == <<r, "bin", "pip">> \in DOMAIN f

\* Lines 43-52: find the install root and its bin/pip.
Discover ==
    /\ pc = "discover"
    /\ steps' = Append(steps, "discover")
    /\ LET paths == InstallRootPaths(fs, args.python_version)
       IN  IF InstallRootChoices(paths) = {}
           THEN /\ err' = "FileNotFoundError"
                /\ pc' = "failed"
                /\ UNCHANGED install_root
           ELSE \E r \in InstallRootChoices(paths) :
                   /\ install_root' = <<r>>
                   /\ IF PipExists(fs, r)
                      THEN /\ pc' = "pip_install"
                           /\ UNCHANGED err
                      ELSE /\ err' = "FileNotFoundError"
                           /\ pc' = "failed"
    /\ UNCHANGED <<fs, args, sys_platform, target_absolute, python_root,
                   old_path_str, new_path_str, walk, dylibs, matches,
                   replaced, cmds, out, calls, fs0, fs_before>>

\* Lines 54-66: uv pip install, then the call of clean_pycache_dirs on
\* target_absolute.
UvPipInstall ==
    /\ pc = "pip_install"
    /\ steps' = Append(steps, "pip_install")
    /\ \E ok \in BOOLEAN, t \in PkgTrees(install_root) :
          /\ cmds' = Append(cmds, Cmd("uv_pip_install", ok))
          /\ fs' = Overlay(fs, t)
          /\ IF ~RunRaises(ok)
             THEN /\ pc' = "clean"
                  /\ walk' = << <<>> >>
                  /\ UNCHANGED err
             ELSE /\ pc' = "failed"
                  /\ err' = "ExternalToolFailure"
                  /\ UNCHANGED walk
    /\ UNCHANGED <<args, sys_platform, target_absolute, install_root,
                   python_root, old_path_str, new_path_str, dylibs, matches,
                   replaced, out, calls, fs0, fs_before>>

\* AfterClean without the platform test.
AfterCleanAlwaysDylib(platform) == "dylib_glob"

\* Lines 69-70: where the build goes once the caches are cleaned.
AfterClean(platform) ==
    IF platform = "darwin" THEN "dylib_glob" ELSE "call_replace"

\* Lines 68-70: the platform test.
PlatformCheck ==
    /\ pc = "clean_return"
    /\ pc' = AfterClean(sys_platform)
    /\ UNCHANGED <<fs, args, sys_platform, target_absolute, install_root,
                   python_root, old_path_str, new_path_str, walk, dylibs,
                   matches, replaced, err, cmds, steps, out, calls, fs0,
                   fs_before>>

\* Line 73: replace_absolute_paths(install_root, str(target_absolute),
\* str(target_dir)).
CallReplaceAbsolutePaths ==
    /\ pc = "call_replace"
    /\ python_root' = install_root
    /\ old_path_str' = target_absolute
    /\ new_path_str' = args.target_dir
    /\ calls' = calls + 1
    /\ pc' = "replace"
    /\ UNCHANGED <<fs, args, sys_platform, target_absolute, install_root,
                   walk, dylibs, matches, replaced, err, cmds, steps, out,
                   fs0, fs_before>>

\* Lines 75-77: the success report.
ReportSuccess ==
    /\ pc = "rap_return"
    /\ out' = Append(out, "success")
    /\ steps' = Append(steps, "success")
    /\ pc' = "done"
    /\ UNCHANGED <<fs, args, sys_platform, target_absolute, install_root,
                   python_root, old_path_str, new_path_str, walk, dylibs,
                   matches, replaced, err, cmds, calls, fs0, fs_before>>

---------------------------------------------------------------------------
(* Specification of one call of build_python_env.                          *)

\* target_dir as given: relative to the working directory, or absolute.
TargetDirs == { <<"a">>, <<"/", "a">> }

\* What may be at target_dir before the build: nothing, an empty directory,
\* or the tree of an earlier build.
InitialTrees ==
    { <<>>, (<<>> :> Dir), RootTree(R2, TRUE, <<"/", "a">>) }

\* The values the locals hold before they are assigned.
Unset == <<"unset">>

Idle ==
    /\ install_root = Unset
    /\ python_root = Unset
    /\ old_path_str = Unset
    /\ new_path_str = Unset
    /\ target_absolute = Unset
    /\ walk = <<>>
    /\ dylibs = <<>>
    /\ matches = 0
    /\ replaced = 0
    /\ err = "none"
    /\ cmds = <<>>
    /\ steps = <<>>
    /\ out = <<>>
    /\ calls = 0

Init ==
    /\ pc = "start"
    /\ fs \in InitialTrees
    /\ fs0 = fs
    /\ fs_before = fs
    /\ args \in [target_dir : TargetDirs, python_version : PythonVersions,
                 force : BOOLEAN]
    /\ sys_platform \in {"darwin", "linux"}
    /\ Idle

Next ==
    \/ BuildStart
    \/ UvPythonInstall
    \/ Discover
    \/ UvPipInstall
    \/ WalkVisit
    \/ CleanReturn
    \/ PlatformCheck
    \/ UpdateMacosDylibIds
    \/ InstallNameTool
    \/ DylibReturn
    \/ CallReplaceAbsolutePaths
    \/ ReplacePass
    \/ ScanPass
    \/ ReportSuccess

Spec == Init /\ [][Next]_vars

---------------------------------------------------------------------------
(* Specification of replace_absolute_paths on arbitrary contents and path  *)
(* pairs: python_root holds bin/pip and lib/pkg/m.py, which text_glob      *)
(* covers, and the binary lib/x.so, which only all_files_glob covers.      *)

SRPip == <<R1, "bin", "pip">>
SRModule == <<R1, "lib", "pkg", "m.py">>
SRBinary == <<R1, "lib", "x.so">>

SRTree(cPip, cModule, cBinary) ==
    (<<>> :> Dir) @@ (<<R1>> :> Dir) @@ (<<R1, "bin">> :> Dir)
    @@ (<<R1, "lib">> :> Dir) @@ (<<R1, "lib", "pkg">> :> Dir)
    @@ (SRPip :> File(cPip)) @@ (SRModule :> File(cModule))
    @@ (SRBinary :> File(cBinary))

InitSR ==
    /\ pc = "replace"
    /\ python_root = <<R1>>
    /\ old_path_str \in BoundedSeq(Bytes, MaxPat) \ {<<>>}
    /\ new_path_str \in BoundedSeq(Bytes, MaxPat)
    /\ \E cPip \in BoundedSeq(Bytes, MaxLen),
          cModule \in {<<>>, old_path_str, old_path_str \o old_path_str},
          cBinary \in {<<>>, old_path_str} :
          fs = SRTree(cPip, cModule, cBinary)
    /\ fs0 = fs
    /\ fs_before = fs
    /\ args = [target_dir |-> new_path_str, python_version |-> "3.12",
               force |-> FALSE]
    /\ sys_platform = "linux"
    /\ install_root = <<R1>>
    /\ target_absolute = old_path_str
    /\ walk = <<>>
    /\ dylibs = <<>>
    /\ matches = 0
    /\ replaced = 0
    /\ err = "none"
    /\ cmds = <<>>
    /\ steps = <<>>
    /\ out = <<>>
    /\ calls = 1

\* replace_absolute_paths is called again with the same arguments.
CallAgain ==
    /\ pc = "rap_return"
    /\ calls < MaxCalls
    /\ calls' = calls + 1
    /\ pc' = "replace"
    /\ UNCHANGED <<fs, args, sys_platform, target_absolute, install_root,
                   python_root, old_path_str, new_path_str, walk, dylibs,
                   matches, replaced, err, cmds, steps, out, fs0, fs_before>>

NextSR ==
    \/ ReplacePass
    \/ ScanPass
    \/ CallAgain

SpecSR == InitSR /\ [][NextSR]_vars

---------------------------------------------------------------------------
(* Specification of clean_pycache_dirs on arbitrary trees.                 *)

EmptyTree == [p \in {} |-> Dir]

RECURSIVE TreesBelow(_, _)
\* The trees that can hang below directory d with k more levels: in every
\* directory an optional file m.py, an optional subdirectory pkg and an
\* optional subdirectory __pycache__.
TreesBelow(d, k) ==
    IF k = 0 THEN {EmptyTree}
    ELSE LET Sub(n) == {EmptyTree} \cup
                       {(d \o <<n>> :> Dir) @@ t : t \in TreesBelow(d \o <<n>>, k - 1)}
             Files  == {EmptyTree, (d \o <<"m.py">> :> File(<<"a">>))}
         IN  {f @@ a @@ c : f \in Files, a \in Sub("pkg"), c \in Sub("__pycache__")}

InitClean ==
    /\ pc = "clean"
    /\ \E t \in TreesBelow(<<>>, MaxDepth) : fs = (<<>> :> Dir) @@ t
    /\ fs0 = fs
    /\ fs_before = fs
    /\ walk = << <<>> >>
    /\ args = [target_dir |-> <<"a">>, python_version |-> "3.12", force |-> TRUE]
    /\ sys_platform = "linux"
    /\ install_root = Unset
    /\ python_root = Unset
    /\ old_path_str = Unset
    /\ new_path_str = Unset
    /\ target_absolute = <<"/", "a">>
    /\ dylibs = <<>>
    /\ matches = 0
    /\ replaced = 0
    /\ err = "none"
    /\ cmds = <<>>
    /\ steps = <<>>
    /\ out = <<>>
    /\ calls = 0

NextClean ==
    \/ WalkVisit
    \/ CleanReturn

SpecClean == InitClean /\ [][NextClean]_vars

---------------------------------------------------------------------------
(* Vocabulary of the properties.                                           *)

Last(q) == q[Len(q)]

Has(q, x) == \E i \in 1..Len(q) : q[i] = x

Times(q, x) == Cardinality({i \in 1..Len(q) : q[i] = x})

Ran(name) == \E i \in 1..Len(cmds) : cmds[i].cmd = name

\* q without the repetitions of an entry right after itself.
RECURSIVE Collapse(_)
Collapse(q) ==
    IF Len(q) <= 1 THEN q
    ELSE IF q[1] = q[2] THEN Collapse(Tail(q))
    ELSE <<q[1]>> \o Collapse(Tail(q))

\* The order of the steps of a build on a platform.
ExpectedSteps(platform) ==
    IF platform = "darwin"
    THEN <<"python_install", "discover", "pip_install", "clean", "dylib",
           "replace", "scan", "success">>
    ELSE <<"python_install", "discover", "pip_install", "clean",
           "replace", "scan", "success">>

\* The steps that are one action each.
SingleSteps == {"python_install", "discover", "pip_install", "replace", "scan", "success"}

\* The entries below target_dir the install-root pattern matches.
MatchingRoots(f) == {r \in {R1, R2} : <<r>> \in DOMAIN f}

\* The discovery was the latest step: fs is still what it looked at.
JustDiscovered == steps # <<>> /\ Last(steps) = "discover"

\* old occurs somewhere in s.
HasOcc(s, old) == \E i \in 1..Len(s) : Occurs(s, old, i)

\* The positions of the occurrences of old in s that a left-to-right scan
\* takes: an occurrence counts unless it overlaps one taken before it.
Taken(s, old) ==
    LET t[i \in 0..Len(s)] ==
            /\ i > 0
            /\ Occurs(s, old, i)
            /\ \A j \in 1..(i - 1) : j > i - Len(old) => ~t[j]
    IN  {i \in 1..Len(s) : t[i]}

\* r is s with exactly the occurrences at the positions of M replaced by
\* new: the length accounts for them, new stands where each was, and every
\* other byte of s is in r, moved by the replacements before it.
ExactlyReplaced(s, r, old, new) ==
    LET M == Taken(s, old)
        Shift(i) == Cardinality({m \in M : m < i}) * (Len(new) - Len(old))
        Covered(i) == \E m \in M : m <= i /\ i < m + Len(old)
    IN  /\ Len(r) = Len(s) + Cardinality(M) * (Len(new) - Len(old))
        /\ \A m \in M : Occurs(r, new, m + Shift(m))
        /\ \A i \in 1..Len(s) : ~Covered(i) => r[i + Shift(i)] = s[i]

\* old and new have no byte in common, and new is not empty.
Disjoint(old, new) ==
    /\ new # <<>>
    /\ \A i \in 1..Len(old), j \in 1..Len(new) : old[i] # new[j]

\* The text files of the tree of SpecSR.
SRTextFiles == {SRPip, SRModule}

\* A path with a component named __pycache__.
InPycache(p) == \E i \in 1..Len(p) : p[i] = "__pycache__"

---------------------------------------------------------------------------
(* The properties.                                                         *)

\* C1: when target_dir exists and force is false the build ends with
\* FileExistsError, and at that moment no external command has run, no step
\* has acted and the filesystem is what it was.
C1_ExistingTargetRefused ==
    (<<>> \in DOMAIN fs0 /\ ~args.force /\ pc # "start") =>
        /\ pc = "failed"
        /\ err = "FileExistsError"
        /\ cmds = <<>>
        /\ steps = <<>>
        /\ fs = fs0

C1_Witness ==
    /\ pc = "failed"
    /\ err = "FileExistsError"
    /\ <<R2>> \in DOMAIN fs0
    /\ ~args.force

\* C2: the steps act in one fixed order and none acts again after a later
\* one: interpreter install, discovery, package install, cache cleanup,
\* dylib patching on darwin only, replace pass, scan pass, success report;
\* the steps that are single calls act at most once; the success report
\* comes only after all the steps that apply.
C2_FixedOrder ==
    /\ IsPrefix(Collapse(steps), ExpectedSteps(sys_platform))
    /\ \A x \in SingleSteps : Times(steps, x) <= 1
    /\ Ran("install_name_tool") => sys_platform = "darwin"
    /\ Has(out, "success") =>
          /\ Collapse(steps) = ExpectedSteps(sys_platform)
          /\ Last(out) = "success"
          /\ Times(out, "success") = 1

C2_Witness ==
    /\ pc = "done"
    /\ sys_platform = "darwin"
    /\ Ran("install_name_tool")
    /\ Has(out, "success")

\* C3: the package install is started only with an install root that the
\* pattern matched and that holds bin/pip; after a discovery that found no
\* match, or no bin/pip in the root it chose, the build has failed with
\* FileNotFoundError and the package install has not run.
C3_DiscoveryFailure ==
    /\ pc = "pip_install" =>
          /\ Len(install_root) = 1
          /\ install_root[1] \in MatchingRoots(fs)
          /\ install_root \o <<"bin", "pip">> \in DOMAIN fs
    /\ Ran("uv_pip_install") => Has(steps, "discover") /\ install_root # Unset
    /\ (JustDiscovered /\ MatchingRoots(fs) = {}) =>
          pc = "failed" /\ err = "FileNotFoundError" /\ ~Ran("uv_pip_install")
    /\ (JustDiscovered /\ install_root # Unset
          /\ install_root \o <<"bin", "pip">> \notin DOMAIN fs) =>
          pc = "failed" /\ err = "FileNotFoundError" /\ ~Ran("uv_pip_install")

C3_Witness ==
    /\ pc = "failed"
    /\ err = "FileNotFoundError"
    /\ install_root = <<R1>>
    /\ <<R1, "bin", "pip">> \notin DOMAIN fs

\* C4 as stated: whenever the pattern matches a number of entries other
\* than one, the discovery fails and the build does not reach the package
\* install.
C4_ExactlyOneOrFail ==
    (JustDiscovered /\ Cardinality(MatchingRoots(fs)) # 1) => pc = "failed"

\* C4 as amended: with no match the discovery fails with
\* FileNotFoundError; with one match or more it settles on one of the
\* matches, and the build goes on to the package install exactly when that
\* one holds bin/pip.
C4_FirstMatchUsed ==
    JustDiscovered =>
        IF MatchingRoots(fs) = {}
        THEN pc = "failed" /\ err = "FileNotFoundError" /\ install_root = Unset
        ELSE /\ Len(install_root) = 1
             /\ install_root[1] \in MatchingRoots(fs)
             /\ pc = "pip_install" <=> install_root \o <<"bin", "pip">> \in DOMAIN fs
             /\ pc \in {"pip_install", "failed"}

C4_Witness ==
    /\ pc = "pip_install"
    /\ MatchingRoots(fs) = {R1, R2}

\* C5 as stated: after a replace pass, a text file that held an occurrence
\* of old holds none, and is its former content with the occurrences
\* replaced by new.
C5_NoOccurrenceLeft ==
    pc = "scan" =>
        \A p \in SRTextFiles :
            HasOcc(fs_before[p].data, old_path_str) =>
                /\ ~HasOcc(fs[p].data, old_path_str)
                /\ ExactlyReplaced(fs_before[p].data, fs[p].data,
                                   old_path_str, new_path_str)

\* C5 as amended: after a replace pass, a text file that held an occurrence
\* of old is its former content with each occurrence a left-to-right scan
\* takes replaced by new and every other byte kept; it holds no occurrence
\* of old when new is not empty and shares no byte with old.
C5_ExactReplacement ==
    pc = "scan" =>
        \A p \in SRTextFiles :
            HasOcc(fs_before[p].data, old_path_str) =>
                /\ ExactlyReplaced(fs_before[p].data, fs[p].data,
                                   old_path_str, new_path_str)
                /\ Disjoint(old_path_str, new_path_str) =>
                      ~HasOcc(fs[p].data, old_path_str)

C5_Witness ==
    /\ pc = "scan"
    /\ Disjoint(old_path_str, new_path_str)
    /\ Len(new_path_str) # Len(old_path_str)
    /\ Cardinality(Taken(fs_before[SRPip].data, old_path_str)) >= 2
    /\ fs_before[SRModule].data # <<>>
    /\ fs[SRPip].data # fs_before[SRPip].data

\* C6 as stated: a second replace pass with the same arguments finds no
\* match and changes no file.
C6_SecondPassIdle ==
    (pc = "scan" /\ calls >= 2) => replaced = 0 /\ fs = fs_before

\* C6 as amended: a second replace pass with the same arguments finds no
\* match and changes no file when the first pass left no occurrence of old
\* in the text files, as it does when new is not empty and shares no byte
\* with old.
C6_SecondPassIdleWhenNoneLeft ==
    (pc = "scan" /\ calls >= 2) =>
        /\ (\A p \in SRTextFiles : ~HasOcc(fs_before[p].data, old_path_str)) =>
              replaced = 0 /\ fs = fs_before
        /\ Disjoint(old_path_str, new_path_str) =>
              replaced = 0 /\ fs = fs_before

C6_Witness ==
    /\ pc = "scan"
    /\ calls = 2
    /\ Disjoint(old_path_str, new_path_str)
    /\ HasOcc(fs0[SRPip].data, old_path_str)
    /\ fs # fs0
    /\ fs = fs_before
    /\ replaced = 0

\* C7: the scan-only pass changes no file, and its count is the number of
\* occurrences of old in all the files below python_root, text or binary.
C7_ScanOnly ==
    pc = "rap_return" =>
        /\ fs = fs_before
        /\ matches = Cardinality(Taken(fs[SRPip].data, old_path_str))
                     + Cardinality(Taken(fs[SRModule].data, old_path_str))
                     + Cardinality(Taken(fs[SRBinary].data, old_path_str))

C7_Witness ==
    /\ pc = "rap_return"
    /\ matches >= 2
    /\ HasOcc(fs[SRBinary].data, old_path_str)
    /\ HasOcc(fs[SRPip].data, old_path_str)
    /\ new_path_str # old_path_str

\* C8: an external command that exits non-zero is the last thing the build
\* does: it ends with the failure at once, no command runs after it or
\* again, no success report is emitted, and no entry that was on disk when
\* the command started is gone.
C8_FailurePropagates ==
    /\ [](\A i \in 1..Len(cmds) : ~cmds[i].ok =>
            /\ i = Len(cmds)
            /\ pc = "failed"
            /\ err = "ExternalToolFailure"
            /\ ~Has(out, "success"))
    /\ [][pc = "failed" => UNCHANGED vars]_vars
    /\ [][(pc' = "failed" /\ err' = "ExternalToolFailure") =>
             \A p \in DOMAIN fs : p \in DOMAIN fs']_vars

C8_Witness ==
    /\ pc = "failed"
    /\ err = "ExternalToolFailure"
    /\ Len(cmds) >= 3
    /\ Last(cmds).cmd = "install_name_tool"
    /\ DOMAIN fs # DOMAIN fs0

\* C9: once the scan has run the build has not failed whatever the count:
\* a non-zero count gave the warning and a zero count the confirmation, the
\* success report can be emitted next, and the build ends having run all
\* its steps and reported success.
C9_VerificationNonFatal ==
    Has(steps, "scan") =>
        /\ pc \in {"rap_return", "done"}
        /\ err = "none"
        /\ matches # 0 => (Has(out, "warn") /\ ~Has(out, "info_none_found"))
        /\ matches = 0 => (Has(out, "info_none_found") /\ ~Has(out, "warn"))
        /\ pc = "rap_return" => ENABLED ReportSuccess
        /\ pc = "done" =>
              Has(out, "success") /\ Collapse(steps) = ExpectedSteps(sys_platform)

C9_Witness ==
    /\ pc = "done"
    /\ matches # 0
    /\ Has(out, "warn")
    /\ Has(out, "success")

\* C10: the walk of clean_pycache_dirs ends without error after visiting
\* at most each directory of the tree once; afterwards no directory named
\* __pycache__ is left below the root, nothing was created, and every file
\* and directory outside the __pycache__ directories is unchanged.
C10_PycacheRemoved ==
    /\ err = "none"
    /\ pc = "clean" =>
          /\ ENABLED NextClean
          /\ Len(steps) + Len(walk)
                <= Cardinality({p \in DOMAIN fs0 : fs0[p].kind = "dir"})
    /\ pc = "clean_return" =>
          /\ \A p \in DOMAIN fs : ~InPycache(p)
          /\ DOMAIN fs \subseteq DOMAIN fs0
          /\ \A p \in DOMAIN fs0 : ~InPycache(p) => (p \in DOMAIN fs /\ fs[p] = fs0[p])

C10_Witness ==
    /\ pc = "clean_return"
    /\ <<"__pycache__", "__pycache__">> \in DOMAIN fs0
    /\ <<"pkg", "__pycache__">> \in DOMAIN fs0
    /\ <<"__pycache__", "m.py">> \in DOMAIN fs0
    /\ <<"pkg", "m.py">> \in DOMAIN fs

=============================================================================
